---- MODULE Spec2Model ----
(***************************************************************************)
(* Q-Chess (src/Demo_Q-Chess.py): chess with "split" pieces.               *)
(*                                                                         *)
(* The module models the classes SplitQubit, QuantumSubsystem,             *)
(* QuantumSplitManager and ChessGame as one state machine.  A square       *)
(* (row, col) is the integer row*8+col; None is NoSquare for squares and   *)
(* the string "None" elsewhere.  A handler of the program is one action;   *)
(* the nested calls a handler makes (terminal evaluation, forced collapse, *)
(* fold, can_castle's flag writes) are part of the action.  The single     *)
(* shot returned by the simulator in QuantumSubsystem.collapse is an input *)
(* of the action: the bits the Hadamard gates leave free are chosen with   *)
(* \E, the controlled gates of add_split_qubit decide the rest.            *)
(*                                                                         *)
(* Not modelled: drawing, fonts, the history list (appended, never read),  *)
(* SplitQubit.children and QuantumSubsystem.position_to_qubit (written,    *)
(* never read).  Lists that are only tested for membership (valid_moves,   *)
(* the move lists of the generators) are sets.                             *)
(***************************************************************************)
EXTENDS Integers, Sequences, FiniteSets, TLC

\* ------------------------------------------------------------------ bounds
MaxPly == 4
MaxSubsystems == 2
MaxQubits == 3
MaxCalls == 6

\* --------------------------------------------------------------- constants
N == 8
NoSquare == -1

Squares == 0 .. (N * N - 1)
Row(sq) == sq \div N
Col(sq) == sq % N
Sq(r, c) == r * N + c
OnBoard(r, c) == r >= 0 /\ r < N /\ c >= 0 /\ c < N

WhitePieces == {"wk", "wq", "wr", "wb", "wn", "wp"}
BlackPieces == {"bk", "bq", "br", "bb", "bn", "bp"}
PIECES == WhitePieces \cup BlackPieces

\* piece[0] and piece[1] of a piece identifier
Color(p) == IF p \in WhitePieces THEN "w" ELSE "b"
Kind(p) ==
  CASE p \in {"wp", "bp"} -> "p"
    [] p \in {"wn", "bn"} -> "n"
    [] p \in {"wb", "bb"} -> "b"
    [] p \in {"wr", "br"} -> "r"
    [] p \in {"wq", "bq"} -> "q"
    [] p \in {"wk", "bk"} -> "k"
    [] OTHER -> ""
\* f"{color}{kind}"
Piece(color, kind) ==
  CHOOSE p \in PIECES : Color(p) = color /\ Kind(p) = kind
Other(color) == IF color = "w" THEN "b" ELSE "w"

EmptyBoard == [sq \in Squares |-> ""]

\* ------------------------------------------------------- move generators
\* get_pawn_moves: pushes onto empty squares, diagonal captures, en passant
get_pawn_moves(b, ep, t, sq) ==
  LET row == Row(sq)
      col == Col(sq)
      direction == IF t = "w" THEN -1 ELSE 1
      start_row == IF t = "w" THEN 6 ELSE 1
      r1 == row + direction
      r2 == row + 2 * direction
      push1 == IF OnBoard(r1, col) /\ b[Sq(r1, col)] = ""
               THEN {Sq(r1, col)} ELSE {}
      push2 == IF push1 # {} /\ row = start_row /\ OnBoard(r2, col)
                  /\ b[Sq(r2, col)] = ""
               THEN {Sq(r2, col)} ELSE {}
      diag == {Sq(r1, nc) : nc \in {c \in {col - 1, col + 1} :
                 OnBoard(r1, c)
                 /\ \/ (b[Sq(r1, c)] # "" /\ Color(b[Sq(r1, c)]) # t)
                    \/ Sq(r1, c) = ep}}
  IN push1 \cup push2 \cup diag

KnightOffsets ==
  {<<-2, -1>>, <<-2, 1>>, <<-1, -2>>, <<-1, 2>>,
   <<1, -2>>, <<1, 2>>, <<2, -1>>, <<2, 1>>}

get_knight_moves(b, t, sq) ==
  {Sq(Row(sq) + d[1], Col(sq) + d[2]) : d \in {e \in KnightOffsets :
     OnBoard(Row(sq) + e[1], Col(sq) + e[2])
     /\ LET tp == b[Sq(Row(sq) + e[1], Col(sq) + e[2])]
        IN tp = "" \/ Color(tp) # t}}

\* one ray of get_bishop_moves / get_rook_moves: walk until the first
\* occupied square, which is included when it holds an enemy piece
Ray(b, t, sq, dr, dc) ==
  {Sq(Row(sq) + k * dr, Col(sq) + k * dc) : k \in {j \in 1 .. (N - 1) :
     /\ OnBoard(Row(sq) + j * dr, Col(sq) + j * dc)
     /\ \A i \in 1 .. (j - 1) : b[Sq(Row(sq) + i * dr, Col(sq) + i * dc)] = ""
     /\ LET tp == b[Sq(Row(sq) + j * dr, Col(sq) + j * dc)]
        IN tp = "" \/ Color(tp) # t}}

get_bishop_moves(b, t, sq) ==
  Ray(b, t, sq, -1, -1) \cup Ray(b, t, sq, -1, 1)
    \cup Ray(b, t, sq, 1, -1) \cup Ray(b, t, sq, 1, 1)

get_rook_moves(b, t, sq) ==
  Ray(b, t, sq, -1, 0) \cup Ray(b, t, sq, 1, 0)
    \cup Ray(b, t, sq, 0, -1) \cup Ray(b, t, sq, 0, 1)

get_queen_moves(b, t, sq) == get_rook_moves(b, t, sq) \cup get_bishop_moves(b, t, sq)

\* the eight adjacent squares of get_king_moves (everything before castling)
KingSteps(b, t, sq) ==
  {Sq(Row(sq) + d[1], Col(sq) + d[2]) : d \in {e \in (-1 .. 1) \X (-1 .. 1) :
     /\ e # <<0, 0>>
     /\ OnBoard(Row(sq) + e[1], Col(sq) + e[2])
     /\ LET tp == b[Sq(Row(sq) + e[1], Col(sq) + e[2])]
        IN tp = "" \/ Color(tp) # t}}

\* get_valid_moves(col, row, simple=True) with self.turn = t
SimpleMoves(g, b, t, sq) ==
  IF g.game_over \/ g.edit_mode \/ b[sq] = "" THEN {}
  ELSE CASE Kind(b[sq]) = "p" -> get_pawn_moves(b, g.en_passant, t, sq)
         [] Kind(b[sq]) = "n" -> get_knight_moves(b, t, sq)
         [] Kind(b[sq]) = "b" -> get_bishop_moves(b, t, sq)
         [] Kind(b[sq]) = "r" -> get_rook_moves(b, t, sq)
         [] Kind(b[sq]) = "q" -> get_queen_moves(b, t, sq)
         [] Kind(b[sq]) = "k" -> KingSteps(b, t, sq)

\* ------------------------------------------------------ QuantumSubsystem
\* SplitBranch(pos, piece_type)
SplitBranch(pos, piece_type) == [pos |-> pos, piece_type |-> piece_type]

\* SplitQubit.__init__: parent is the index of the parent qubit in the
\* subsystem's split_qubits (0 for None); qubit_index is the position - 1
SplitQubit(branch_a, branch_b, parent, parent_branch) ==
  [branch_a |-> branch_a, branch_b |-> branch_b, parent |-> parent,
   parent_branch |-> parent_branch, collapsed_result |-> "None"]

\* QuantumSubsystem.__init__; shots counts the runs of the simulator
QuantumSubsystem == [split_qubits |-> <<>>, measured |-> FALSE, shots |-> 0]

\* the bits the simulator may return for n qubits before the controlled
\* gates are taken into account
FreeBits(n) == [1 .. n -> {"a", "b"}]

\* the circuit built by add_split_qubit, measured once: a root qubit gets a
\* Hadamard gate (either bit); a child gets a Hadamard controlled on its
\* parent holding parent_branch and stays at bit 0, branch 'a', otherwise
Measure(qs, bits) ==
  LET res[i \in 1 .. Len(qs)] ==
        IF qs[i].parent = 0 THEN bits[i]
        ELSE IF qs[i].parent_branch = "a"
             THEN (IF res[qs[i].parent] = "a" THEN bits[i] ELSE "a")
             ELSE (IF res[qs[i].parent] = "b" THEN bits[i] ELSE "a")
  IN res

\* QuantumSubsystem.add_split_qubit
add_split_qubit(ss, branch_a, branch_b, parent_qubit, parent_branch) ==
  [ss EXCEPT !.split_qubits =
     Append(@, SplitQubit(branch_a, branch_b, parent_qubit, parent_branch))]

\* collapse without "if self.measured: return self.result_map": every call
\* samples again
collapse_resampling(ss, bits) ==
  [ss EXCEPT
     !.split_qubits = [i \in 1 .. Len(ss.split_qubits) |->
        [ss.split_qubits[i] EXCEPT
           !.collapsed_result = Measure(ss.split_qubits, bits)[i]]],
     !.measured = TRUE,
     !.shots = @ + 1]

\* QuantumSubsystem.collapse, the simulator returning bits
collapse(ss, bits) ==
  IF ss.measured THEN ss
  ELSE [ss EXCEPT
          !.split_qubits = [i \in 1 .. Len(ss.split_qubits) |->
             [ss.split_qubits[i] EXCEPT
                !.collapsed_result = Measure(ss.split_qubits, bits)[i]]],
          !.measured = TRUE,
          !.shots = @ + 1]

\* the collapsed branch of a qubit
RealBranch(q) == IF q.collapsed_result = "a" THEN q.branch_a ELSE q.branch_b

\* the loop of QuantumSubsystem.apply_to_board over qubits_to_process: both
\* branch squares are cleared, then the real branch is written
RECURSIVE ApplyQubits(_, _, _)
ApplyQubits(board, qs, i) ==
  IF i > Len(qs) THEN board
  ELSE ApplyQubits([board EXCEPT ![qs[i].branch_a.pos] = "",
                                 ![qs[i].branch_b.pos] = "",
                                 ![RealBranch(qs[i]).pos] = RealBranch(qs[i]).piece_type],
                   qs, i + 1)

\* QuantumSubsystem.apply_to_board on a measured subsystem; target is the
\* qubit object handed in (<<>> for None)
apply_to_board(ss, board, target) ==
  ApplyQubits(board, IF target # <<>> THEN target ELSE ss.split_qubits, 1)

\* --------------------------------------------------- QuantumSplitManager
\* a qubit object is named by <<subsystem index, qubit index>>; NoQubit is None
NoQubit == <<0, 0>>
QubitAt(subsystems, ref) == subsystems[ref[1]].split_qubits[ref[2]]

\* QuantumSplitManager.is_split_piece
is_split_piece(g, pos) == pos \in DOMAIN g.global_position_map

\* create_split_qubit that opens the subsystem but indexes the two squares
\* the other way round
create_split_qubit_swapped(g, from_pos, to_pos, piece_type) ==
  [g EXCEPT
     !.subsystems = Append(@, add_split_qubit(QuantumSubsystem,
                                 SplitBranch(from_pos, piece_type),
                                 SplitBranch(to_pos, piece_type), 0, "None")),
     !.global_position_map =
        (to_pos :> [sub |-> Len(g.subsystems) + 1, qubit |-> 1, branch |-> "a"])
        @@ (from_pos :> [sub |-> Len(g.subsystems) + 1, qubit |-> 1, branch |-> "b"])
        @@ g.global_position_map]

\* QuantumSplitManager.create_split_qubit
create_split_qubit(g, from_pos, to_pos, piece_type) ==
  LET has_parent == from_pos \in DOMAIN g.global_position_map
      parent_info == g.global_position_map[from_pos]
      s == IF has_parent THEN parent_info.sub ELSE Len(g.subsystems) + 1
      subs0 == IF has_parent THEN g.subsystems
               ELSE Append(g.subsystems, QuantumSubsystem)
      ss == add_split_qubit(subs0[s],
                            SplitBranch(from_pos, piece_type),
                            SplitBranch(to_pos, piece_type),
                            IF has_parent THEN parent_info.qubit ELSE 0,
                            IF has_parent THEN parent_info.branch ELSE "None")
      q == Len(ss.split_qubits)
  IN [g EXCEPT
        !.subsystems = [subs0 EXCEPT ![s] = ss],
        !.global_position_map =
           (to_pos :> [sub |-> s, qubit |-> q, branch |-> "b"])
           @@ (from_pos :> [sub |-> s, qubit |-> q, branch |-> "a"])
           @@ g.global_position_map]

\* QuantumSplitManager.collapse_qubit: the subsystem holding the qubit
collapse_qubit(g, ref, orc) ==
  [g EXCEPT !.subsystems[ref[1]] = collapse(@, orc[ref[1]])]

\* QuantumSplitManager.collapse_all, and the loop of is_in_check
collapse_all(g, orc) ==
  [g EXCEPT !.subsystems =
     [s \in 1 .. Len(g.subsystems) |-> collapse(g.subsystems[s], orc[s])]]

\* the first loop of apply_collapse_to_board: every measured subsystem is
\* folded in turn (with the target qubit when one is given)
RECURSIVE FoldMeasured(_, _, _, _)
FoldMeasured(subsystems, board, target, s) ==
  IF s > Len(subsystems) THEN board
  ELSE FoldMeasured(subsystems,
                    IF subsystems[s].measured
                    THEN apply_to_board(subsystems[s], board,
                           IF target = NoQubit THEN <<>>
                           ELSE <<QubitAt(subsystems, target)>>)
                    ELSE board,
                    target, s + 1)

\* QuantumSplitManager.apply_collapse_to_board
apply_collapse_to_board(g, target) ==
  LET positions_to_remove ==
        {pos \in DOMAIN g.global_position_map :
           LET e == g.global_position_map[pos]
           IN /\ g.subsystems[e.sub].measured
              /\ (target = NoQubit \/ <<e.sub, e.qubit>> = target)}
  IN [g EXCEPT
        !.board = FoldMeasured(g.subsystems, g.board, target, 1),
        !.global_position_map =
           [pos \in (DOMAIN g.global_position_map) \ positions_to_remove |->
              g.global_position_map[pos]]]

\* QuantumSplitManager.get_split_positions: per unmeasured subsystem the
\* (pos, piece_type) of both branches of every qubit
get_split_positions(g) ==
  {{SplitBranch(q.branch_a.pos, q.branch_a.piece_type) :
        q \in {g.subsystems[s].split_qubits[i] :
                 i \in 1 .. Len(g.subsystems[s].split_qubits)}}
     \cup {SplitBranch(q.branch_b.pos, q.branch_b.piece_type) :
        q \in {g.subsystems[s].split_qubits[i] :
                 i \in 1 .. Len(g.subsystems[s].split_qubits)}} :
     s \in {x \in 1 .. Len(g.subsystems) : ~g.subsystems[x].measured}}

\* ------------------------------------------------------------- ChessGame
King(color) == IF color = "w" THEN "wk" ELSE "bk"

\* is_square_attacked without "clear other split positions in group": a
\* branch is tried on the board as it stands
is_square_attacked_keeping_siblings(g, sq, color, simple) ==
  \/ \E s \in Squares :
       /\ g.board[s] # ""
       /\ Color(g.board[s]) = Other(color)
       /\ simple \/ ~is_split_piece(g, s)
       /\ sq \in SimpleMoves(g, g.board, Other(color), s)
  \/ /\ ~simple
     /\ \E group \in get_split_positions(g) :
          \E e \in group :
            /\ Color(e.piece_type) = Other(color)
            /\ sq \in SimpleMoves(g, [g.board EXCEPT ![e.pos] = e.piece_type],
                                  Other(color), e.pos)

\* ChessGame.is_square_attacked; pure (self.turn and self.board are put back)
is_square_attacked(g, sq, color, simple) ==
  LET opponent == Other(color)
  IN IF simple
     THEN \E s \in Squares :
            /\ g.board[s] # ""
            /\ Color(g.board[s]) = opponent
            /\ sq \in SimpleMoves(g, g.board, opponent, s)
     ELSE \/ \E s \in Squares :
               /\ g.board[s] # ""
               /\ Color(g.board[s]) = opponent
               /\ ~is_split_piece(g, s)
               /\ sq \in SimpleMoves(g, g.board, opponent, s)
          \/ \E group \in get_split_positions(g) :
               \E e \in group :
                 /\ Color(e.piece_type) = opponent
                 /\ LET others == {o.pos : o \in group} \ {e.pos}
                        temp_board == [x \in Squares |->
                           IF x = e.pos THEN e.piece_type
                           ELSE IF x \in others THEN "" ELSE g.board[x]]
                    IN sq \in SimpleMoves(g, temp_board, opponent, e.pos)

\* the king search of is_in_check: the inner break leaves the row only, so
\* the last row holding a king decides, and in it the first column
KingPos(b, color) ==
  LET ks == {s \in Squares : b[s] = King(color)}
  IN IF ks = {} THEN NoSquare
     ELSE LET r == CHOOSE x \in {Row(s) : s \in ks} :
                     \A y \in {Row(s) : s \in ks} : y <= x
              c == CHOOSE x \in {Col(s) : s \in {k \in ks : Row(k) = r}} :
                     \A y \in {Col(s) : s \in {k \in ks : Row(k) = r}} : x <= y
          IN Sq(r, c)

\* ChessGame.invalidate_check_cache
invalidate_check_cache(g) ==
  [g EXCEPT !.check_cache = [w |-> "None", b |-> "None"]]

Cached(v) == IF v THEN "True" ELSE "False"

\* ChessGame.is_in_check(color, simple=True): no side effect
InCheckSimple(g, color) ==
  /\ KingPos(g.board, color) # NoSquare
  /\ is_square_attacked(g, KingPos(g.board, color), color, TRUE)

\* is_in_check's tail with the collapse taken out of the `if in_check`
CheckAnswer_always_collapsing(g, color, orc, in_check) ==
  [res |-> in_check,
   g |-> [invalidate_check_cache(
            apply_collapse_to_board(collapse_all(g, orc), NoQubit))
          EXCEPT !.check_cache[color] = Cached(in_check)]]

\* is_in_check once the attack on the king is known: a check collapses
\* every subsystem, folds the board and drops the cache; the answer found
\* before the collapse is cached
CheckAnswer(g, color, orc, in_check) ==
  [res |-> in_check,
   g |-> [(IF in_check
           THEN invalidate_check_cache(
                  apply_collapse_to_board(collapse_all(g, orc), NoQubit))
           ELSE g) EXCEPT !.check_cache[color] = Cached(in_check)]]

\* ChessGame.is_in_check(color, simple=False): the answer and the game after
is_in_check(g, color, orc) ==
  IF g.check_cache[color] # "None"
  THEN [res |-> g.check_cache[color] = "True", g |-> g]
  ELSE IF KingPos(g.board, color) = NoSquare
  THEN [res |-> FALSE, g |-> g]
  ELSE CheckAnswer(g, color, orc,
                   is_square_attacked(g, KingPos(g.board, color), color, FALSE))

\* the board of is_legal_move while the move is tried
TryMove(g, from, to) ==
  [g EXCEPT !.board = [g.board EXCEPT ![to] = g.board[from], ![from] = ""]]

\* ChessGame.is_legal_move; pure (the board is put back)
is_legal_move(g, from, to) ==
  IF g.game_over \/ g.edit_mode THEN FALSE
  ELSE IF InCheckSimple(g, g.turn)
  THEN ~InCheckSimple(TryMove(g, from, to), g.turn)
  ELSE ~InCheckSimple(TryMove(g, from, to), g.turn)

\* board[row][col] for the column offsets of can_castle
BoardAt(b, row, col) == IF OnBoard(row, col) THEN b[Sq(row, col)] ELSE ""

\* can_castle, the king side
KingSideOk(g, sq) ==
  /\ g.castling[g.turn].king_nm
  /\ BoardAt(g.board, Row(sq), Col(sq) + 1) = ""
  /\ BoardAt(g.board, Row(sq), Col(sq) + 2) = ""
  /\ ~is_square_attacked(g, Sq(Row(sq), Col(sq) + 1), g.turn, TRUE)
  /\ ~is_square_attacked(g, Sq(Row(sq), Col(sq) + 2), g.turn, TRUE)

\* can_castle, the queen side
QueenSideOk(g, sq) ==
  /\ g.castling[g.turn].queen_nm
  /\ BoardAt(g.board, Row(sq), Col(sq) - 1) = ""
  /\ BoardAt(g.board, Row(sq), Col(sq) - 2) = ""
  /\ BoardAt(g.board, Row(sq), Col(sq) - 3) = ""
  /\ ~is_square_attacked(g, Sq(Row(sq), Col(sq) - 1), g.turn, TRUE)
  /\ ~is_square_attacked(g, Sq(Row(sq), Col(sq) - 2), g.turn, TRUE)

\* can_castle, the flags written: a side found eligible is set, and both
\* are reset only when neither is
CastleAnswer(g, k, q) ==
  IF k \/ q
  THEN [res |-> TRUE,
        g |-> [g EXCEPT !.castling[g.turn].king = (@ \/ k),
                        !.castling[g.turn].queen = (@ \/ q)]]
  ELSE [res |-> FALSE,
        g |-> [g EXCEPT !.castling[g.turn].king = FALSE,
                        !.castling[g.turn].queen = FALSE]]

\* ChessGame.can_castle: the answer and the game after (the 'king' and
\* 'queen' flags of the side to move are written)
can_castle(g, sq) ==
  IF \/ Kind(g.board[sq]) # "k"
     \/ (~g.castling[g.turn].king_nm /\ ~g.castling[g.turn].queen_nm)
  THEN [res |-> FALSE, g |-> g]
  ELSE IF InCheckSimple(g, g.turn)
  THEN [res |-> FALSE, g |-> g]
  ELSE CastleAnswer(g, KingSideOk(g, sq), QueenSideOk(g, sq))

\* get_king_moves, the castling moves added after can_castle answered cc
CastleMoves(g, sq, cc) ==
  [moves |-> KingSteps(g.board, g.turn, sq)
     \cup (IF cc.res /\ cc.g.castling[g.turn].king THEN {sq + 2} ELSE {})
     \cup (IF cc.res /\ cc.g.castling[g.turn].queen THEN {sq - 2} ELSE {}),
   g |-> cc.g]

\* ChessGame.get_king_moves(row, col, simple=False)
get_king_moves(g, sq) ==
  IF g.castling[g.turn].king_nm \/ g.castling[g.turn].queen_nm
  THEN CastleMoves(g, sq, can_castle(g, sq))
  ELSE [moves |-> KingSteps(g.board, g.turn, sq), g |-> g]

\* get_valid_moves, the filter that keeps the legal moves of gen
LegalMoves(gen, sq) ==
  [moves |-> {m \in gen.moves : is_legal_move(gen.g, sq, m)}, g |-> gen.g]

\* ChessGame.get_valid_moves(col, row, simple=False): the legal moves and
\* the game after
get_valid_moves(g, sq) ==
  IF g.game_over \/ g.edit_mode THEN [moves |-> {}, g |-> g]
  ELSE IF g.board[sq] = "" \/ Color(g.board[sq]) # g.turn
  THEN [moves |-> {}, g |-> g]
  ELSE LegalMoves(IF Kind(g.board[sq]) = "k" THEN get_king_moves(g, sq)
                  ELSE [moves |-> SimpleMoves(g, g.board, g.turn, sq), g |-> g],
                  sq)

\* the loops of is_checkmate and is_stalemate: the first piece of the colour
\* with a legal move ends the scan
RECURSIVE ScanLegal(_, _, _)
RECURSIVE ScanFrom(_, _, _)
ScanFrom(vm, color, sq) ==
  IF vm.moves # {} THEN [found |-> TRUE, g |-> vm.g]
  ELSE ScanLegal(vm.g, color, sq + 1)

ScanLegal(g, color, sq) ==
  IF sq >= N * N THEN [found |-> FALSE, g |-> g]
  ELSE IF g.board[sq] # "" /\ Color(g.board[sq]) = color
  THEN ScanFrom(get_valid_moves(g, sq), color, sq)
  ELSE ScanLegal(g, color, sq + 1)

\* "return True" after a scan that found no legal move
NoLegalMove(sc) == [res |-> ~sc.found, g |-> sc.g]

\* is_checkmate after is_in_check answered ic
MateIfChecked(ic, color) ==
  IF ~ic.res THEN [res |-> FALSE, g |-> ic.g]
  ELSE NoLegalMove(ScanLegal(ic.g, color, 0))

\* ChessGame.is_checkmate
is_checkmate(g, color, orc) == MateIfChecked(is_in_check(g, color, orc), color)

\* is_stalemate after is_in_check answered ic
StaleIfUnchecked(ic, color) ==
  IF ic.res THEN [res |-> FALSE, g |-> ic.g]
  ELSE NoLegalMove(ScanLegal(ic.g, color, 0))

\* ChessGame.is_stalemate
is_stalemate(g, color, orc) == StaleIfUnchecked(is_in_check(g, color, orc), color)

\* "elif self.is_stalemate(...)": a stalemate ends the game as a draw
EndIfStalemate(sm) ==
  IF sm.res
  THEN [sm.g EXCEPT !.game_over = TRUE, !.draw_by_stalemate = TRUE]
  ELSE sm.g

\* "if self.is_checkmate(...)": a checkmate ends the game, else stalemate
\* is asked
EndIfCheckmate(cm, color, orc) ==
  IF cm.res
  THEN [cm.g EXCEPT !.game_over = TRUE, !.draw_by_stalemate = FALSE]
  ELSE EndIfStalemate(is_stalemate(cm.g, color, orc))

\* a half-move that ends without asking is_checkmate or is_stalemate
EvaluateTerminal_skipped(g, orc) == g

\* the terminal evaluation that ends make_move and the promotion choice
EvaluateTerminal(g, orc) == EndIfCheckmate(is_checkmate(g, g.turn, orc), g.turn, orc)

\* an unhandled exception leaves update_loop and ends the program
Raise(g) == [g EXCEPT !.running = FALSE]

\* self.turn = 'b' if self.turn == 'w' else 'w'
FlipTurn(g) == [g EXCEPT !.turn = Other(@)]

\* a stage of make_move hands on the game and whether the terminal
\* evaluation that ends make_move is still to run
Return(g) == [g |-> g, evaluate |-> FALSE]

\* the early return of make_move without "self.turn = 'b' if self.turn ==
\* 'w' else 'w'": the side that moved stays to move
PassTurn_keeping_turn(g) == [g |-> invalidate_check_cache(g), evaluate |-> TRUE]

\* the early returns of make_move that pass the turn: invalidate the cache,
\* flip the turn, then evaluate checkmate and stalemate
PassTurn(g) == [g |-> FlipTurn(invalidate_check_cache(g)), evaluate |-> TRUE]

\* the qubit object indexed at pos
RefAt(g, pos) == <<g.global_position_map[pos].sub, g.global_position_map[pos].qubit>>

\* apply_collapse_to_board for a qubit of the collapsed game g1: the game
\* after and the square of the real branch
FoldQubit(g1, ref) ==
  [g |-> apply_collapse_to_board(g1, ref),
   real_pos |-> RealBranch(QubitAt(g1.subsystems, ref)).pos]

\* collapse_qubit, then apply_collapse_to_board, for the qubit indexed at
\* pos
CollapseAt(g, pos, orc) ==
  FoldQubit(collapse_qubit(g, RefAt(g, pos), orc), RefAt(g, pos))

\* make_move, "Update game state": en passant target, castling rights,
\* turn, split mode, cache; the terminal evaluation follows
UpdateGameState(g, from, to, piece) ==
  LET t == g.turn
      ep == IF Kind(piece) = "p" /\ (Row(to) - Row(from) = 2 \/ Row(from) - Row(to) = 2)
            THEN Sq((Row(from) + Row(to)) \div 2, Col(from))
            ELSE NoSquare
      king_nm == IF Kind(piece) = "k" THEN FALSE
                 ELSE IF Kind(piece) = "r" /\ Col(from) # 0 /\ Col(from) = N - 1
                 THEN FALSE ELSE g.castling[t].king_nm
      queen_nm == IF Kind(piece) = "k" THEN FALSE
                  ELSE IF Kind(piece) = "r" /\ Col(from) = 0 THEN FALSE
                  ELSE g.castling[t].queen_nm
  IN [g |-> invalidate_check_cache(
              [g EXCEPT !.en_passant = ep,
                        !.castling[t].king_nm = king_nm,
                        !.castling[t].queen_nm = queen_nm,
                        !.turn = Other(t),
                        !.split_mode = FALSE]),
      evaluate |-> TRUE]

\* make_move, "Perform the move", "Handle castling", "Handle promotion"
PerformMove(g, from, to, piece) ==
  LET castles == Kind(piece) = "k"
                 /\ (Col(to) - Col(from) = 2 \/ Col(from) - Col(to) = 2)
      Promote(g2) ==
        IF Kind(piece) = "p" /\ (Row(to) = 0 \/ Row(to) = N - 1)
        THEN Return([g2 EXCEPT !.promotion_pending = TRUE, !.promotion_pos = to])
        ELSE UpdateGameState(g2, from, to, piece)
      Castle(g1) ==
        Promote(IF ~castles THEN g1
                ELSE IF Col(to) > Col(from)
                THEN [g1 EXCEPT !.board = [g1.board EXCEPT
                        ![Sq(Row(from), N - 1)] = "",
                        ![Sq(Row(from), 5)] = Piece(g.turn, "r")]]
                ELSE [g1 EXCEPT !.board = [g1.board EXCEPT
                        ![Sq(Row(from), 0)] = "",
                        ![Sq(Row(from), 3)] = Piece(g.turn, "r")]])
  IN Castle(IF ~g.split_mode
            THEN [g EXCEPT !.board = [g.board EXCEPT ![from] = "", ![to] = piece]]
            ELSE create_split_qubit(
                   [g EXCEPT !.board = [g.board EXCEPT ![from] = piece, ![to] = piece]],
                   from, to, piece))

\* make_move, "Handle en passant capture"
EnPassantCapture(g, from, to, piece, is_en_passant, orc) ==
  LET capture_sq == Sq(Row(to) + (IF g.turn = "w" THEN 1 ELSE -1), Col(to))
      Taken(h) == [h EXCEPT !.captured[g.turn] = Append(@, g.board[capture_sq])]
      Collapsed(ca) == IF ca.real_pos = capture_sq THEN Taken(ca.g) ELSE ca.g
      Cleared(g1) == [g1 EXCEPT !.board[capture_sq] = ""]
  IN PerformMove(IF ~is_en_passant THEN g
                 ELSE IF is_split_piece(g, capture_sq)
                 THEN Cleared(Collapsed(CollapseAt(g, capture_sq, orc)))
                 ELSE Cleared(Taken(g)),
                 from, to, piece)

\* make_move once the target position is handled: t.stop tells whether
\* make_move returned, passed the turn or goes on
AfterTarget(t, from, to, piece, is_en_passant, orc) ==
  IF t.stop = "return" THEN Return(t.g)
  ELSE IF t.stop = "pass" THEN PassTurn(t.g)
  ELSE EnPassantCapture(t.g, from, to, piece, is_en_passant, orc)

\* make_move, "Handle target position"; target_piece and is_split_to were
\* read when make_move began
HandleTarget(g, from, to, piece, target_piece, is_split_to, is_en_passant, orc) ==
  LET Go(h) == [g |-> h, stop |-> "go"]
      Taken(h) == [h EXCEPT !.captured[g.turn] = Append(@, target_piece)]
      Own(ca) == IF ca.real_pos = to THEN [g |-> ca.g, stop |-> "pass"] ELSE Go(ca.g)
      Enemy(ca) == IF ca.real_pos = to THEN Go(Taken(ca.g)) ELSE Go(ca.g)
  IN AfterTarget(
       IF target_piece = "" THEN Go(g)
       ELSE IF Color(target_piece) = g.turn
       THEN IF is_split_to
            THEN IF is_split_piece(g, to) THEN Own(CollapseAt(g, to, orc)) ELSE Go(g)
            ELSE [g |-> g, stop |-> "return"]
       ELSE IF is_split_to
            THEN IF is_split_piece(g, to) THEN Enemy(CollapseAt(g, to, orc)) ELSE Go(g)
            ELSE Go(Taken(g)),
       from, to, piece, is_en_passant, orc)

\* make_move, "Handle moving a split piece", after subsystem.collapse():
\* the qubit is folded and the origin cleared
FoldOrigin(g1, from) ==
  [g |-> [apply_collapse_to_board(g1, RefAt(g1, from)) EXCEPT !.board[from] = ""],
   real_branch |-> RealBranch(QubitAt(g1.subsystems, RefAt(g1, from)))]

\* make_move, "Handle moving a split piece": subsystem.collapse()
SplitOrigin(g, from, orc) ==
  FoldOrigin([g EXCEPT !.subsystems[g.global_position_map[from].sub] =
                collapse(@, orc[g.global_position_map[from].sub])],
             from)

\* make_move from "Handle target position" on, for the game h after the
\* origin was handled; g is the game make_move began with
TargetStage(g, h, from, to, piece, orc) ==
  HandleTarget(h, from, to, piece, g.board[to], is_split_piece(g, to),
               Kind(g.board[from]) = "p" /\ to = g.en_passant, orc)

\* a fake origin passes the turn; a real one moves the collapsed piece
OriginStage(g, so, from, to, orc) ==
  IF so.real_branch.pos # from THEN PassTurn(so.g)
  ELSE TargetStage(g, so.g, from, to, so.real_branch.piece_type, orc)

\* the checkmate and stalemate evaluation that ends make_move
FinishMove(r, orc) == IF r.evaluate THEN EvaluateTerminal(r.g, orc) ELSE r.g

\* ChessGame.make_move; orc holds, per subsystem, the bits the simulator
\* returns if the subsystem is measured during the call
make_move(g, from, to, orc) ==
  IF g.game_over \/ g.edit_mode THEN g
  ELSE IF g.board[from] = "" THEN Raise(g)
  ELSE FinishMove(IF is_split_piece(g, from)
                  THEN OriginStage(g, SplitOrigin(g, from, orc), from, to, orc)
                  ELSE TargetStage(g, g, from, to, g.board[from], orc),
                  orc)

\* handle_click on the Edit button, after the toggle: leaving edit mode
\* asks is_stalemate for the side to move
AfterToggle(g1, orc) ==
  IF g1.edit_mode THEN g1
  ELSE EndIfStalemate(is_stalemate(g1, g1.turn, orc))

\* handle_click on the Edit button with "if self.game_over: return" placed
\* after the edit buttons: the toggle still works once the game has ended
ClickToggleEdit_after_end(g, orc) ==
  AfterToggle([g EXCEPT !.edit_mode = ~@,
                        !.selected = NoSquare,
                        !.valid_moves = {},
                        !.selected_piece_to_place = "None"],
              orc)

\* handle_click on the Edit button
ClickToggleEdit(g, orc) ==
  IF g.game_over THEN g
  ELSE AfterToggle([g EXCEPT !.edit_mode = ~@,
                             !.selected = NoSquare,
                             !.valid_moves = {},
                             !.selected_piece_to_place = "None"],
                   orc)

\* handle_click on one of piece_options (a button shown in edit mode)
ClickPieceOption(g, option) ==
  IF g.game_over \/ ~g.edit_mode THEN g
  ELSE [g EXCEPT !.selected_piece_to_place = option]

\* the promotion choice without "Update quantum state if position is
\* split": the branch keeps the pawn identity
ClickPromotionOption_keeping_identity(g, choice, orc) ==
  IF g.game_over \/ g.edit_mode \/ ~g.promotion_pending THEN g
  ELSE EvaluateTerminal(invalidate_check_cache(
         [g EXCEPT !.board[g.promotion_pos] = Piece(g.turn, choice),
                   !.promotion_pending = FALSE,
                   !.promotion_pos = NoSquare,
                   !.en_passant = NoSquare,
                   !.turn = Other(@),
                   !.selected = NoSquare,
                   !.valid_moves = {}]), orc)

\* handle_click on a button of promotion_options
ClickPromotionOption(g, choice, orc) ==
  IF g.game_over \/ g.edit_mode \/ ~g.promotion_pending THEN g
  ELSE LET pos == g.promotion_pos
           new_piece == Piece(g.turn, choice)
           info == g.global_position_map[pos]
           subs == IF ~is_split_piece(g, pos) THEN g.subsystems
                   ELSE IF info.branch = "a"
                   THEN [g.subsystems EXCEPT
                           ![info.sub].split_qubits[info.qubit].branch_a.piece_type = new_piece]
                   ELSE [g.subsystems EXCEPT
                           ![info.sub].split_qubits[info.qubit].branch_b.piece_type = new_piece]
           g1 == [g EXCEPT !.board[pos] = new_piece,
                           !.subsystems = subs,
                           !.promotion_pending = FALSE,
                           !.promotion_pos = NoSquare,
                           !.en_passant = NoSquare,
                           !.turn = Other(@),
                           !.selected = NoSquare,
                           !.valid_moves = {}]
       IN EvaluateTerminal(invalidate_check_cache(g1), orc)

\* handle_click on a square of the board without "if (row, col) in
\* self.valid_moves": with a piece selected every click is played as a move
ClickSquare_unchecked(g, sq, orc) ==
  IF g.game_over THEN g
  ELSE IF g.edit_mode
  THEN IF g.selected_piece_to_place = "None" THEN g
       ELSE invalidate_check_cache(
              [g EXCEPT !.board[sq] =
                 IF g.selected_piece_to_place = "delete" THEN ""
                 ELSE g.selected_piece_to_place])
  ELSE IF g.promotion_pending THEN g
  ELSE IF g.selected # NoSquare
  THEN IF make_move(g, g.selected, sq, orc).promotion_pending
       THEN make_move(g, g.selected, sq, orc)
       ELSE [make_move(g, g.selected, sq, orc) EXCEPT
               !.selected = NoSquare, !.valid_moves = {}]
  ELSE IF g.board[sq] # "" /\ Color(g.board[sq]) = g.turn
  THEN [get_valid_moves(g, sq).g EXCEPT
          !.selected = sq, !.valid_moves = get_valid_moves(g, sq).moves]
  ELSE g

\* handle_click on a square of the board
ClickSquare(g, sq, orc) ==
  LET Moved(g1) ==
        IF ~g1.running \/ g1.promotion_pending THEN g1
        ELSE [g1 EXCEPT !.selected = NoSquare, !.valid_moves = {}]
      Selected(vm) == [vm.g EXCEPT !.selected = sq, !.valid_moves = vm.moves]
  IN IF g.game_over THEN g
     ELSE IF g.edit_mode
     THEN IF g.selected_piece_to_place = "None" THEN g
          ELSE invalidate_check_cache(
                 [g EXCEPT !.board[sq] =
                    IF g.selected_piece_to_place = "delete" THEN ""
                    ELSE g.selected_piece_to_place])
     ELSE IF g.promotion_pending THEN g
     ELSE IF g.selected # NoSquare
     THEN IF sq \in g.valid_moves
          THEN Moved(make_move(g, g.selected, sq, orc))
          ELSE [g EXCEPT !.selected = NoSquare, !.valid_moves = {}]
     ELSE IF g.board[sq] # "" /\ Color(g.board[sq]) = g.turn
     THEN Selected(get_valid_moves(g, sq))
     ELSE g

\* update_loop on K_SPACE
KeySpace(g) == [g EXCEPT !.split_mode = ~@]

\* draw_board: every king on the board asks is_in_check(color, simple=False)
RECURSIVE DrawSquares(_, _, _)
DrawSquares(g, sq, orc) ==
  IF sq >= N * N THEN g
  ELSE IF g.board[sq] \in {"wk", "bk"}
  THEN DrawSquares(is_in_check(g, Color(g.board[sq]), orc).g, sq + 1, orc)
  ELSE DrawSquares(g, sq + 1, orc)

draw_board(g, orc) == IF g.game_over THEN g ELSE DrawSquares(g, 0, orc)

\* ------------------------------------------------------------------ state
VARIABLES
  board, turn, selected, valid_moves, captured, en_passant, castling,
  promotion_pending, promotion_pos, check_cache, game_over, edit_mode,
  selected_piece_to_place, draw_by_stalemate, split_mode,
  subsystems, global_position_map, running,
  inputs,  \* what the user may click in this run; never changes
  ply,     \* the number of make_move calls (under SpecApi: manager calls) so far
  last     \* the last event that changed the game

vars ==
  <<board, turn, selected, valid_moves, captured, en_passant, castling,
    promotion_pending, promotion_pos, check_cache, game_over, edit_mode,
    selected_piece_to_place, draw_by_stalemate, split_mode,
    subsystems, global_position_map, running, inputs, ply, last>>

\* the ChessGame object with its QuantumSplitManager
G ==
  [board |-> board, turn |-> turn, selected |-> selected,
   valid_moves |-> valid_moves, captured |-> captured,
   en_passant |-> en_passant, castling |-> castling,
   promotion_pending |-> promotion_pending, promotion_pos |-> promotion_pos,
   check_cache |-> check_cache, game_over |-> game_over,
   edit_mode |-> edit_mode,
   selected_piece_to_place |-> selected_piece_to_place,
   draw_by_stalemate |-> draw_by_stalemate, split_mode |-> split_mode,
   subsystems |-> subsystems, global_position_map |-> global_position_map,
   running |-> running]

\* the event (op, from, to) took the game from G to g
Sets(g) ==
  /\ board' = g.board
  /\ turn' = g.turn
  /\ selected' = g.selected
  /\ valid_moves' = g.valid_moves
  /\ captured' = g.captured
  /\ en_passant' = g.en_passant
  /\ castling' = g.castling
  /\ promotion_pending' = g.promotion_pending
  /\ promotion_pos' = g.promotion_pos
  /\ check_cache' = g.check_cache
  /\ game_over' = g.game_over
  /\ edit_mode' = g.edit_mode
  /\ selected_piece_to_place' = g.selected_piece_to_place
  /\ draw_by_stalemate' = g.draw_by_stalemate
  /\ split_mode' = g.split_mode
  /\ subsystems' = g.subsystems
  /\ global_position_map' = g.global_position_map
  /\ running' = g.running
  /\ inputs' = inputs

\* an event of the game: last names the latest event that changed the game
Becomes(g, op, from, to) ==
  /\ Sets(g)
  /\ last' = IF g = G THEN last ELSE [op |-> op, from |-> from, to |-> to]

\* a call of the split manager: last names the latest call
Called(g, op, from, to) ==
  /\ Sets(g)
  /\ last' = [op |-> op, from |-> from, to |-> to]

\* ChessGame.__init__, except for the board
NewGame(b) ==
  [board |-> b, turn |-> "w", selected |-> NoSquare, valid_moves |-> {},
   captured |-> [w |-> <<>>, b |-> <<>>], en_passant |-> NoSquare,
   castling |-> [w |-> [king |-> FALSE, queen |-> FALSE,
                        king_nm |-> TRUE, queen_nm |-> TRUE],
                 b |-> [king |-> FALSE, queen |-> FALSE,
                        king_nm |-> TRUE, queen_nm |-> TRUE]],
   promotion_pending |-> FALSE, promotion_pos |-> NoSquare,
   check_cache |-> [w |-> "None", b |-> "None"], game_over |-> FALSE,
   edit_mode |-> FALSE, selected_piece_to_place |-> "None",
   draw_by_stalemate |-> FALSE, split_mode |-> FALSE,
   subsystems |-> <<>>, global_position_map |-> <<>>, running |-> TRUE]

\* the bits the simulator may return, per subsystem, during one handler:
\* free for every unmeasured subsystem and for the one a split may add
RECURSIVE OraclesUpTo(_, _)
OraclesUpTo(g, s) ==
  IF s = 0 THEN {<<>>}
  ELSE {Append(o, bits) :
          o \in OraclesUpTo(g, s - 1),
          bits \in IF s > Len(g.subsystems)
                   THEN (IF g.split_mode THEN FreeBits(1) ELSE {<<>>})
                   ELSE IF g.subsystems[s].measured THEN {<<>>}
                   ELSE FreeBits(Len(g.subsystems[s].split_qubits))}
Oracles(g) == OraclesUpTo(g, Len(g.subsystems) + 1)

\* ------------------------------------------------------------- positions
\* The game starts from INITIAL_BOARD; the runs explored start where the
\* user has thinned the board out in edit mode (the last tool used was
\* 'delete') and is about to leave edit mode; a king may have moved
\* before that, which edit mode never undoes.  Each run also fixes whether
\* the user presses the space bar.  Each run fixes the squares
\* and buttons the user goes on to click.
Place(ps) ==
  [sq \in Squares |-> IF \E e \in ps : e[1] = sq
                      THEN (CHOOSE e \in ps : e[1] = sq)[2] ELSE ""]

\* a pawn that can take a branch of a split knight next to the white king
PawnTakesKnight ==
  [board |-> Place({<<60, "wk">>, <<57, "wn">>, <<4, "bk">>, <<44, "bp">>}),
   squares |-> {57, 51, 42, 44, 4, 3},
   edit_squares |-> {}, options |-> {}, toggle |-> FALSE, moved |-> {},
   space |-> TRUE]

\* a rook behind a knight that splits off its file
RookBehindKnight ==
  [board |-> Place({<<60, "wk">>, <<59, "wr">>, <<35, "wn">>, <<4, "bk">>}),
   squares |-> {35, 41, 29, 4, 3},
   edit_squares |-> {}, options |-> {}, toggle |-> FALSE, moved |-> {},
   space |-> TRUE]

\* a king that splits, and a knight that splits next to it
SplitKing ==
  [board |-> Place({<<60, "wk">>, <<4, "bk">>, <<28, "bn">>}),
   squares |-> {60, 59, 53, 28, 38},
   edit_squares |-> {}, options |-> {}, toggle |-> FALSE, moved |-> {},
   space |-> TRUE]

\* a pawn one step from the back rank
PawnToPromote ==
  [board |-> Place({<<60, "wk">>, <<4, "bk">>, <<8, "wp">>}),
   squares |-> {8, 0, 4, 3},
   edit_squares |-> {}, options |-> {}, toggle |-> FALSE, moved |-> {},
   space |-> TRUE]

\* the user goes back to edit mode during play
EditDuringPlay ==
  [board |-> Place({<<60, "wk">>, <<57, "wn">>, <<4, "bk">>}),
   squares |-> {57, 42},
   edit_squares |-> {42}, options |-> {"delete", "bp"}, toggle |-> TRUE,
   moved |-> {},
   space |-> TRUE]

\* a pawn that can take en passant while it shields its king from a rook;
\* the black king has left e8 earlier in the game
EnPassantPin ==
  [board |-> Place({<<60, "wk">>, <<51, "wp">>, <<39, "wr">>,
                    <<32, "bk">>, <<36, "bp">>}),
   squares |-> {51, 35, 36, 43},
   edit_squares |-> {}, options |-> {}, toggle |-> FALSE, moved |-> {"b"},
   space |-> FALSE]

\* a pawn double-step answered by a move from a split knight, next to a
\* second pawn
StaleEnPassant ==
  [board |-> Place({<<60, "wk">>, <<57, "wn">>, <<4, "bk">>,
                    <<8, "bp">>, <<9, "bp">>}),
   squares |-> {57, 42, 51, 8, 24, 9, 16},
   edit_squares |-> {}, options |-> {}, toggle |-> FALSE, moved |-> {},
   space |-> TRUE]

\* a king with both rooks at home and a bishop that comes to attack f8
CastleStale ==
  [board |-> Place({<<60, "wk">>, <<44, "wb">>, <<4, "bk">>,
                    <<0, "br">>, <<7, "br">>, <<8, "bp">>}),
   squares |-> {44, 35, 26, 8, 16, 4},
   edit_squares |-> {}, options |-> {}, toggle |-> FALSE, moved |-> {},
   space |-> FALSE]

\* a king with both rooks at home and a bishop that can take the rook on h8
CastleNoRook ==
  [board |-> Place({<<60, "wk">>, <<35, "wb">>, <<4, "bk">>,
                    <<0, "br">>, <<7, "br">>}),
   squares |-> {35, 7, 4, 6},
   edit_squares |-> {}, options |-> {}, toggle |-> FALSE, moved |-> {},
   space |-> FALSE]

\* a knight that can split onto a square from which it checks a king that
\* has no move; both kings have moved
GhostCheck ==
  [board |-> Place({<<2, "wk">>, <<15, "wr">>, <<27, "wn">>, <<0, "bk">>}),
   squares |-> {27, 17},
   edit_squares |-> {}, options |-> {}, toggle |-> FALSE, moved |-> {"w", "b"},
   space |-> TRUE]

\* a rook that can mate or stalemate at once; both kings have moved
RookEndgame ==
  [board |-> Place({<<2, "wk">>, <<63, "wr">>, <<0, "bk">>}),
   squares |-> {63, 15, 56},
   edit_squares |-> {}, options |-> {}, toggle |-> TRUE, moved |-> {"w", "b"},
   space |-> FALSE]

\* a pawn one step from the back rank and a black rook that can check the
\* white king along the first rank afterwards
PromoteThenCheck ==
  [board |-> Place({<<60, "wk">>, <<8, "wp">>, <<4, "bk">>, <<7, "br">>}),
   squares |-> {8, 0, 7, 63},
   edit_squares |-> {}, options |-> {}, toggle |-> FALSE, moved |-> {},
   space |-> TRUE]

\* a pawn whose double-step checks a king that has left e1, while a knight
\* of the king's side may be split
DoubleStepCheck ==
  [board |-> Place({<<32, "wk">>, <<62, "wn">>, <<4, "bk">>, <<9, "bp">>}),
   squares |-> {62, 45, 9, 25},
   edit_squares |-> {}, options |-> {}, toggle |-> FALSE, moved |-> {"w"},
   space |-> TRUE]

\* a king and a rook at home with an enemy pawn on e2, next to the square
\* the king crosses when it castles; the black king has moved
PawnBesideKing ==
  [board |-> Place({<<60, "wk">>, <<63, "wr">>, <<52, "bp">>, <<12, "bk">>}),
   squares |-> {60, 62, 61},
   edit_squares |-> {}, options |-> {}, toggle |-> FALSE, moved |-> {"b"},
   space |-> FALSE]

Positions ==
  {PawnTakesKnight, RookBehindKnight, SplitKing, PawnToPromote, EditDuringPlay,
   EnPassantPin, StaleEnPassant, CastleStale, CastleNoRook, GhostCheck,
   RookEndgame, PromoteThenCheck, DoubleStepCheck, PawnBesideKing}

\* the never-moved flags after the kings of the colours in moved have moved
\* (make_move: "if piece[1] == 'k'")
KingsMoved(g, moved) ==
  [g EXCEPT !.castling = [c \in {"w", "b"} |->
     IF c \in moved
     THEN [g.castling[c] EXCEPT !.king_nm = FALSE, !.queen_nm = FALSE]
     ELSE g.castling[c]]]

\* the game is g
StartsAs(g) ==
  /\ board = g.board
  /\ turn = g.turn
  /\ selected = g.selected
  /\ valid_moves = g.valid_moves
  /\ captured = g.captured
  /\ en_passant = g.en_passant
  /\ castling = g.castling
  /\ promotion_pending = g.promotion_pending
  /\ promotion_pos = g.promotion_pos
  /\ check_cache = g.check_cache
  /\ game_over = g.game_over
  /\ edit_mode = g.edit_mode
  /\ selected_piece_to_place = g.selected_piece_to_place
  /\ draw_by_stalemate = g.draw_by_stalemate
  /\ split_mode = g.split_mode
  /\ subsystems = g.subsystems
  /\ global_position_map = g.global_position_map
  /\ running = g.running

Init ==
  \E p \in Positions :
    /\ StartsAs([KingsMoved(NewGame(p.board), p.moved) EXCEPT
                    !.edit_mode = TRUE,
                    !.selected_piece_to_place = "delete"])
    /\ inputs = [squares |-> p.squares, edit_squares |-> p.edit_squares,
                 options |-> p.options, toggle |-> p.toggle,
                 space |-> p.space]
    /\ ply = 0
    /\ last = [op |-> "init", from |-> NoSquare, to |-> NoSquare]

\* ---------------------------------------------------------------- events
promotion_options == {"q", "r", "b", "n"}

\* a click on a board square that reaches make_move
IsMoveClick(sq) ==
  /\ ~game_over /\ ~edit_mode /\ ~promotion_pending
  /\ selected # NoSquare
  /\ sq \in valid_moves

\* MOUSEBUTTONDOWN on the Edit button
ToggleEdit ==
  /\ running
  /\ edit_mode \/ inputs.toggle
  /\ \E orc \in (IF edit_mode THEN Oracles(G) ELSE {<<>>}) :
       Becomes(ClickToggleEdit(G, orc), "toggle_edit", NoSquare, NoSquare)
  /\ ply' = ply

\* MOUSEBUTTONDOWN on a piece button of the sidebar
PieceOption ==
  /\ running
  /\ \E option \in inputs.options :
       Becomes(ClickPieceOption(G, option), "piece_option", NoSquare, NoSquare)
  /\ ply' = ply

\* MOUSEBUTTONDOWN on a promotion button of the sidebar
PromotionOption ==
  /\ running
  /\ promotion_pending
  /\ \E choice \in promotion_options :
       \E orc \in Oracles(G) :
         Becomes(ClickPromotionOption(G, choice, orc), "promotion", promotion_pos, promotion_pos)
  /\ ply' = ply

\* MOUSEBUTTONDOWN on a square of the board
Click ==
  /\ running
  /\ \E sq \in (IF edit_mode THEN inputs.edit_squares ELSE inputs.squares) :
       IF IsMoveClick(sq)
       THEN /\ ply < MaxPly
            /\ split_mode => Len(subsystems) < MaxSubsystems
            /\ \E orc \in Oracles(G) :
                 Becomes(ClickSquare(G, sq, orc), "move", selected, sq)
            /\ ply' = ply + 1
       ELSE /\ Becomes(ClickSquare(G, sq, <<>>), "click", NoSquare, sq)
            /\ ply' = ply

\* KEYDOWN K_SPACE
Space ==
  /\ running
  /\ inputs.space
  /\ split_mode \/ Len(subsystems) < MaxSubsystems
  /\ Becomes(KeySpace(G), "space", NoSquare, NoSquare)
  /\ ply' = ply

\* the draw_board call that ends update_loop
Draw ==
  /\ running
  /\ \E orc \in Oracles(G) :
       Becomes(draw_board(G, orc), "draw", NoSquare, NoSquare)
  /\ ply' = ply

Next == ToggleEdit \/ PieceOption \/ PromotionOption \/ Click \/ Space \/ Draw

Spec == Init /\ [][Next]_vars

\* ------------------------------------------- the split manager on its own
\* QuantumSplitManager and QuantumSubsystem driven call by call, so that
\* children are chained from either branch of an existing qubit; the board
\* holds a white knight on b1 and a black knight on b8
ApiSquares == {57, 42, 40, 1}

InitApi ==
  /\ StartsAs(NewGame(Place({<<57, "wn">>, <<1, "bn">>})))
  /\ inputs = [squares |-> ApiSquares, edit_squares |-> {},
               options |-> {}, toggle |-> FALSE, space |-> FALSE]
  /\ ply = 0
  /\ last = [op |-> "init", from |-> NoSquare, to |-> NoSquare]

\* the split of make_move: the piece is written on both squares, then
\* create_split_qubit(from, to, piece); a split from a live branch chains
ApiCreate ==
  /\ ply < MaxCalls
  /\ \E from \in inputs.squares, to \in inputs.squares :
       /\ board[from] # ""
       /\ board[to] = ""
       /\ ~is_split_piece(G, to)
       /\ IF is_split_piece(G, from)
          THEN Len(subsystems[global_position_map[from].sub].split_qubits) < MaxQubits
          ELSE Len(subsystems) < MaxSubsystems
       /\ Called(create_split_qubit(
                    [G EXCEPT !.board = [board EXCEPT ![to] = board[from]]],
                    from, to, board[from]),
                  "create_split_qubit", from, to)
  /\ ply' = ply + 1

\* create_split_qubit(from, to, piece) called for a piece on no indexed
\* square with a destination that a qubit of an unmeasured subsystem indexes
ApiCreateOnto ==
  /\ ply < MaxCalls
  /\ \E from \in inputs.squares, to \in inputs.squares :
       /\ board[from] # ""
       /\ from # to
       /\ is_split_piece(G, to)
       /\ ~subsystems[global_position_map[to].sub].measured
       /\ ~is_split_piece(G, from)
       /\ Len(subsystems) < MaxSubsystems
       /\ Called(create_split_qubit(
                    [G EXCEPT !.board = [board EXCEPT ![to] = board[from]]],
                    from, to, board[from]),
                  "create_split_qubit", from, to)
  /\ ply' = ply + 1

\* QuantumSubsystem.collapse() on subsystem s; last.to keeps how often the
\* subsystem had been sampled before the call
ApiCollapse ==
  /\ ply < MaxCalls
  /\ \E s \in 1 .. Len(subsystems) :
       \E bits \in FreeBits(Len(subsystems[s].split_qubits)) :
         Called([G EXCEPT !.subsystems[s] = collapse(@, bits)],
                "collapse", s, subsystems[s].shots)
  /\ ply' = ply + 1

\* QuantumSubsystem.apply_to_board(board) on subsystem s, over all its
\* qubits; an unmeasured subsystem is collapsed first
ApiApply ==
  /\ ply < MaxCalls
  /\ \E s \in 1 .. Len(subsystems) :
       \E bits \in (IF subsystems[s].measured THEN {<<>>}
                    ELSE FreeBits(Len(subsystems[s].split_qubits))) :
         Called([G EXCEPT
                    !.subsystems[s] = collapse(@, bits),
                    !.board = apply_to_board(collapse(subsystems[s], bits), board, <<>>)],
                 "apply_to_board", s, 0)
  /\ ply' = ply + 1

\* the qubit objects of the manager
Qubits == {<<s, i>> : s \in 1 .. MaxSubsystems, i \in 1 .. MaxQubits}
LiveQubits ==
  {r \in Qubits : r[1] <= Len(subsystems) /\ r[2] <= Len(subsystems[r[1]].split_qubits)}

\* QuantumSplitManager.apply_collapse_to_board(board, target): without a
\* target, or with a qubit of a measured subsystem as make_move hands it in
ApiFold ==
  /\ ply < MaxCalls
  /\ \E target \in {NoQubit} \cup {r \in LiveQubits : subsystems[r[1]].measured} :
       Called(apply_collapse_to_board(G, target),
               "apply_collapse_to_board", target[1], target[2])
  /\ ply' = ply + 1

NextApi == ApiCreate \/ ApiCreateOnto \/ ApiCollapse \/ ApiApply \/ ApiFold

SpecApi == InitApi /\ [][NextApi]_vars

\* ================================================================ claims
\* the branch squares of a subsystem
BranchSquares(ss) ==
  {ss.split_qubits[i].branch_a.pos : i \in 1 .. Len(ss.split_qubits)}
    \cup {ss.split_qubits[i].branch_b.pos : i \in 1 .. Len(ss.split_qubits)}

\* subsystem s was collapsed and folded: measured, and gone from the index
FoldedSub(s) ==
  /\ subsystems[s].measured
  /\ \A pos \in DOMAIN global_position_map : global_position_map[pos].sub # s

\* the branch squares of the subsystems that are not folded yet
LiveSquares ==
  UNION {BranchSquares(subsystems[s]) : s \in {x \in 1 .. Len(subsystems) : ~FoldedSub(x)}}

\* the squares an event writes by the ordinary rules: the origin and the
\* destination of a move (the edited or promoted square of a click), the
\* pawn taken en passant and the rook of a castling move
OrdinarySquares(e) ==
  {e.from, e.to}
    \cup (IF e.op = "move" /\ board[e.from] # "" /\ Kind(board[e.from]) = "p"
             /\ e.to = en_passant
          THEN {Sq(Row(e.from), Col(e.to))} ELSE {})
    \cup (IF e.op = "move" /\ board[e.from] # "" /\ Kind(board[e.from]) = "k"
          THEN {Sq(Row(e.from), 0), Sq(Row(e.from), 3),
                Sq(Row(e.from), 5), Sq(Row(e.from), N - 1)}
          ELSE {})

\* C1: once a subsystem is collapsed and folded it is never folded again:
\* an event changes a former branch square of a folded subsystem only by
\* the ordinary rules (or because the square belongs to a subsystem that
\* is folded by this event for the first time)
C1_NeverFoldedAgain ==
  [][\A s \in 1 .. Len(subsystems) :
       FoldedSub(s) =>
         \A sq \in BranchSquares(subsystems[s]) :
           board'[sq] # board[sq] => sq \in OrdinarySquares(last') \cup LiveSquares]_vars

\* qubit i of qs and all its ancestors: each parent's outcome is the
\* branch its child is conditioned on
RECURSIVE Realised(_, _)
Realised(qs, i) ==
  \/ qs[i].parent = 0
  \/ /\ qs[qs[i].parent].collapsed_result = qs[i].parent_branch
     /\ Realised(qs, qs[i].parent)

\* C2: collapse followed by apply_to_board over all qubits leaves the split
\* piece on exactly one branch square of the subsystem and every other
\* branch square empty
C2_ExactlyOneLocation ==
  last.op = "apply_to_board" =>
    \E sq \in BranchSquares(subsystems[last.from]) :
      /\ board[sq] = subsystems[last.from].split_qubits[1].branch_a.piece_type
      /\ \A o \in BranchSquares(subsystems[last.from]) \ {sq} : board[o] = ""

\* C3: after apply_to_board the outcome of a child is on the board only if
\* every ancestor realised the branch its child is conditioned on
C3_ParentConsistency ==
  last.op = "apply_to_board" =>
    \A i \in 1 .. Len(subsystems[last.from].split_qubits) :
      board[RealBranch(subsystems[last.from].split_qubits[i]).pos]
          = RealBranch(subsystems[last.from].split_qubits[i]).piece_type
        => Realised(subsystems[last.from].split_qubits, i)

\* C4: the measurement of a subsystem is sampled at most once, the first
\* collapse() sets measured and fixes every outcome, and no later call
\* changes an outcome or samples again
C4_CollapseSingleShot ==
  /\ [](\A s \in 1 .. Len(subsystems) :
          /\ subsystems[s].shots <= 1
          /\ subsystems[s].measured <=> subsystems[s].shots = 1)
  /\ [][\A s \in 1 .. Len(subsystems) :
          /\ ~subsystems[s].measured /\ subsystems'[s].measured =>
               \A i \in 1 .. Len(subsystems'[s].split_qubits) :
                 subsystems'[s].split_qubits[i].collapsed_result \in {"a", "b"}
          /\ subsystems[s].measured =>
               /\ subsystems'[s].measured
               /\ subsystems'[s].shots = subsystems[s].shots
               /\ \A i \in 1 .. Len(subsystems[s].split_qubits) :
                    subsystems'[s].split_qubits[i].collapsed_result
                      = subsystems[s].split_qubits[i].collapsed_result]_vars

\* collapse() was called on a subsystem that had been sampled before
C4_CollapsedAgain ==
  /\ last.op = "collapse"
  /\ last.to = 1
  /\ subsystems[last.from].shots = 1
  /\ Len(subsystems[last.from].split_qubits) > 1

\* the branch that indexes square pos
IndexedBranch(pos) ==
  IF global_position_map[pos].branch = "a"
  THEN QubitAt(subsystems, RefAt(G, pos)).branch_a
  ELSE QubitAt(subsystems, RefAt(G, pos)).branch_b

\* C5: after apply_collapse_to_board returns, with or without a target
\* qubit, no square left in global_position_map belongs to a measured
\* subsystem
C5_NoMeasuredSquareIndexed ==
  last.op = "apply_collapse_to_board" =>
    \A pos \in DOMAIN global_position_map :
      ~subsystems[global_position_map[pos].sub].measured

\* C6: every indexed square holds on the board exactly the piece recorded
\* in the branch that indexes it, and that branch stands on the square
C6_ExactlyOneOwner ==
  \A pos \in DOMAIN global_position_map :
    /\ IndexedBranch(pos).pos = pos
    /\ board[pos] = IndexedBranch(pos).piece_type

\* the latest event is an ordinary (non-split) move of a classical piece
\* onto a live branch of an enemy split piece
CapturesLiveBranch(e) ==
  /\ e.op = "move"
  /\ ~split_mode
  /\ ~is_split_piece(G, e.from)
  /\ is_split_piece(G, e.to)
  /\ board[e.to] # ""
  /\ Color(board[e.to]) # turn

\* C7: a capture onto a live branch of an enemy split piece collapses and
\* folds the owning subsystem first; the capture list grows by that piece
\* iff the destination branch is real, otherwise it is unchanged and the
\* enemy piece stands on its other branch square; either way the
\* destination holds the moving piece and neither branch square is indexed
C7_CaptureOntoLiveBranch ==
  [][CapturesLiveBranch(last') =>
       LET ref == RefAt(G, last'.to)
           q == QubitAt(subsystems', ref)
       IN /\ subsystems'[ref[1]].measured
          /\ board'[last'.to] = board[last'.from]
          /\ q.branch_a.pos \notin DOMAIN global_position_map'
          /\ q.branch_b.pos \notin DOMAIN global_position_map'
          /\ IF RealBranch(q).pos = last'.to
             THEN /\ captured'[turn] = Append(captured[turn], board[last'.to])
                  /\ captured'[Other(turn)] = captured[Other(turn)]
             ELSE /\ captured' = captured
                  /\ board'[RealBranch(q).pos] = RealBranch(q).piece_type]_vars

\* the latest event is a move whose origin was a live branch that the
\* collapse found absent
FakeOriginMove(e) ==
  /\ e.op = "move"
  /\ is_split_piece(G, e.from)
  /\ RealBranch(QubitAt(subsystems', RefAt(G, e.from))).pos # e.from

\* the board after the fold of the qubit indexed at from, the origin cleared
FoldOnly(from) ==
  [board EXCEPT
     ![QubitAt(subsystems', RefAt(G, from)).branch_a.pos] = "",
     ![QubitAt(subsystems', RefAt(G, from)).branch_b.pos] = "",
     ![RealBranch(QubitAt(subsystems', RefAt(G, from))).pos] =
        RealBranch(QubitAt(subsystems', RefAt(G, from))).piece_type,
     ![from] = ""]

\* what a fake origin leaves alone whatever the terminal evaluation finds:
\* both capture lists and the never-moved castling flags are unchanged, the
\* turn passes once, and the game is over iff the new side has no legal move
FakeOriginFrame ==
  /\ captured' = captured
  /\ \A c \in {"w", "b"} :
       /\ castling'[c].king_nm = castling[c].king_nm
       /\ castling'[c].queen_nm = castling[c].queen_nm
  /\ turn' = Other(turn)
  /\ check_cache'[turn'] # "None"
  /\ game_over' <=> ~ScanLegal([G EXCEPT !.game_over = FALSE]', turn', 0).found

\* C8 as stated: after a move from a live branch that turns out absent the
\* only board change is the fold; destination, capture lists and castling
\* rights are unchanged, the turn passes once and checkmate/stalemate is
\* evaluated for the new side
C8_FakeOriginOnlyFolds ==
  [][FakeOriginMove(last') =>
       /\ FakeOriginFrame
       /\ board' = FoldOnly(last'.from)
       /\ board'[last'.to] = board[last'.to]]_vars

\* C8, amended: the board is changed by the fold alone unless the terminal
\* evaluation finds the new side in check, which collapses every subsystem
\* and folds them into the board
C8_FakeOriginFoldsUnlessCheck ==
  [][FakeOriginMove(last') =>
       /\ FakeOriginFrame
       /\ check_cache'[turn'] = "False" =>
            /\ board' = FoldOnly(last'.from)
            /\ board'[last'.to] = board[last'.to]]_vars

\* a move from an absent origin was made: the destination stayed empty, the
\* origin is empty, and the new side was found not in check
C8_FakeOriginPassed ==
  /\ last.op = "move"
  /\ board[last.from] = ""
  /\ board[last.to] = ""
  /\ check_cache[turn] = "False"
  /\ ~game_over
  /\ \E s \in 1 .. Len(subsystems) :
       /\ FoldedSub(s)
       /\ last.from \in BranchSquares(subsystems[s])
       /\ RealBranch(subsystems[s].split_qubits[1]).pos # last.from
       /\ board[RealBranch(subsystems[s].split_qubits[1]).pos]
            = subsystems[s].split_qubits[1].branch_a.piece_type

\* the board on which branch e of a live subsystem (group) is real and the
\* other squares of the subsystem are empty
BranchReal(b, group, e) ==
  [x \in Squares |->
     IF x = e.pos THEN e.piece_type
     ELSE IF x \in {o.pos : o \in group} THEN "" ELSE b[x]]

\* some live branch of a split piece of the opponent, taken as real,
\* attacks sq on the board of g
LiveBranchAttacks(g, sq, defender) ==
  \E group \in get_split_positions(g) :
    \E e \in group :
      /\ Color(e.piece_type) = Other(defender)
      /\ sq \in SimpleMoves(g, BranchReal(g.board, group, e), Other(defender), e.pos)

\* C9: is_legal_move rejects every king move of the side to move onto a
\* square that a live branch of an opposing split piece attacks once the
\* king stands there
C9_KingAvoidsLiveBranch ==
  \A from \in Squares :
    board[from] = King(turn) =>
      \A to \in KingSteps(board, turn, from) :
        LiveBranchAttacks(TryMove(G, from, to), to, turn)
          => ~is_legal_move(G, from, to)

\* the fully classical board of a joint outcome orc: every subsystem that
\* is still unmeasured is collapsed to orc and folded into the board
RECURSIVE ClassicalBoard(_, _, _, _)
ClassicalBoard(subs, b, orc, s) ==
  IF s > Len(subs) THEN b
  ELSE ClassicalBoard(subs,
                      IF subs[s].measured THEN b
                      ELSE apply_to_board(collapse(subs[s], orc[s]), b, <<>>),
                      orc, s + 1)

\* C10: attack detection is pessimistic for the defender: if under some
\* joint outcome of the live subsystems an enemy piece attacks the square
\* on the resulting classical board, then non-simple is_square_attacked
\* answers true on the current board
C10_PessimisticAttack ==
  \A sq \in Squares :
    \A defender \in {"w", "b"} :
      (\E orc \in Oracles(G) :
         is_square_attacked(
           [G EXCEPT !.board = ClassicalBoard(subsystems, board, orc, 1)],
           sq, defender, TRUE))
        => is_square_attacked(G, sq, defender, FALSE)

\* ------------------------------------------------------------------- C11
\* the moves get_valid_moves generates for the piece on sq before it
\* filters them with is_legal_move
Generated(g, sq) ==
  IF Kind(g.board[sq]) = "k" THEN get_king_moves(g, sq).moves
  ELSE SimpleMoves(g, g.board, g.turn, sq)

\* the board make_move leaves when it plays from -> to as an ordinary move
\* in a game without subsystems
BoardAfter(g, from, to) == make_move(g, from, to, <<>>).board

\* C11: with the game running and edit mode off, is_legal_move(from, to)
\* is false if and only if the mover's king is attacked on the board that
\* applying the move produces (stated for games without subsystems and for
\* the moves the generators propose)
C11_LegalIffKingSafe ==
  (~game_over /\ ~edit_mode /\ ~promotion_pending /\ ~split_mode
     /\ subsystems = <<>>) =>
    \A from \in {s \in inputs.squares : board[s] # "" /\ Color(board[s]) = turn} :
      \A to \in Generated(G, from) :
        is_legal_move(G, from, to)
          <=> ~InCheckSimple([G EXCEPT !.board = BoardAfter(G, from, to)], turn)

\* ------------------------------------------------------------------- C12
\* The legality engine step by step, with every write it makes to the game:
\* is_square_attacked lends self.turn to the opponent around each call of
\* get_valid_moves, is_legal_move writes the move on self.board and takes
\* it back.  Each operator yields the answer and the game on return.

\* one visit of the loop of is_square_attacked(simple=True): original_turn
\* is saved, the opponent's moves are generated, the turn is given back
VisitAttacker(g, s, opponent) ==
  [moves |-> SimpleMoves([g EXCEPT !.turn = opponent], g.board, opponent, s),
   g |-> [[g EXCEPT !.turn = opponent] EXCEPT !.turn = g.turn]]

\* is_square_attacked(row, col, color, simple=True) from square s of the
\* scan on: the first attacker found ends it
RECURSIVE AttackScan(_, _, _, _)
AttackFound(v, sq, color, s) ==
  IF sq \in v.moves THEN [res |-> TRUE, g |-> v.g]
  ELSE AttackScan(v.g, sq, color, s + 1)

AttackScan(g, sq, color, s) ==
  IF s >= N * N THEN [res |-> FALSE, g |-> g]
  ELSE IF g.board[s] # "" /\ Color(g.board[s]) = Other(color)
  THEN AttackFound(VisitAttacker(g, s, Other(color)), sq, color, s)
  ELSE AttackScan(g, sq, color, s + 1)

\* is_in_check(color, simple=True): neither the cache nor a collapse
InCheckSimpleRun(g, color) ==
  IF KingPos(g.board, color) = NoSquare THEN [res |-> FALSE, g |-> g]
  ELSE AttackScan(g, KingPos(g.board, color), color, 0)

\* is_legal_move: "self.board[to] = piece; self.board[from] = ''"
TrialMove(h, from, to, piece) ==
  [h EXCEPT !.board = [[h.board EXCEPT ![to] = piece] EXCEPT ![from] = ""]]

\* is_legal_move without "self.board[to_row][to_col] = captured": the
\* piece taken on trial is not put back
UnmakeMove_losing_captured(h, from, to, piece, taken) ==
  [h EXCEPT !.board = [h.board EXCEPT ![from] = piece]]

\* is_legal_move: "self.board[from] = piece; self.board[to] = captured"
UnmakeMove(h, from, to, piece, taken) ==
  [h EXCEPT !.board = [[h.board EXCEPT ![from] = piece] EXCEPT ![to] = taken]]

\* is_legal_move, the third trial made when the mover is in check
StillInCheck(still, from, to, piece, taken) ==
  [res |-> ~still.res, g |-> UnmakeMove(still.g, from, to, piece, taken)]

\* is_legal_move once in_check_after_move and in_check_before are known
LegalAnswer(after, before, from, to, piece, taken) ==
  IF before.res
  THEN StillInCheck(InCheckSimpleRun(TrialMove(before.g, from, to, piece),
                                     before.g.turn),
                    from, to, piece, taken)
  ELSE [res |-> ~after.res, g |-> before.g]

\* is_legal_move after the first trial answered after
LegalAfterTrial(after, from, to, piece, taken) ==
  LegalAnswer(after,
              InCheckSimpleRun(UnmakeMove(after.g, from, to, piece, taken),
                               after.g.turn),
              from, to, piece, taken)

\* ChessGame.is_legal_move with its writes: the answer and the game on
\* return
is_legal_move_run(g, from, to) ==
  IF g.game_over \/ g.edit_mode THEN [res |-> FALSE, g |-> g]
  ELSE LegalAfterTrial(
         InCheckSimpleRun(TrialMove(g, from, to, g.board[from]), g.turn),
         from, to, g.board[from], g.board[to])

\* C12: is_legal_move, is_in_check(simple=True) and
\* is_square_attacked(simple=True) return with the game exactly as it was
\* at entry (board, turn, castling flags, en-passant target, capture
\* lists, check cache, index, subsystems), for every reachable state, the
\* moves generated for the pieces of the side to move onto the squares of
\* the run; their answers are those of the side-effect-free reading used
\* by the handlers
C12_LegalityEngineIsPure ==
  /\ \A from \in {s \in inputs.squares : board[s] # "" /\ Color(board[s]) = turn} :
       \A to \in Generated(G, from) \cap inputs.squares :
         LET run == is_legal_move_run(G, from, to)
         IN /\ run.g = G
            /\ run.res = is_legal_move(G, from, to)
  /\ \A color \in {"w", "b"} :
       LET run == InCheckSimpleRun(G, color)
       IN /\ run.g = G
          /\ run.res = InCheckSimple(G, color)
  /\ \A sq \in inputs.squares :
       LET run == AttackScan(G, sq, turn, 0)
       IN /\ run.g = G
          /\ run.res = is_square_attacked(G, sq, turn, TRUE)

\* is_legal_move rejected a generated move while a split piece was live:
\* the trial was written on the board and taken back
C12_TrialsUnwound ==
  /\ ~game_over /\ ~edit_mode
  /\ global_position_map # <<>>
  /\ \E from \in inputs.squares :
       /\ board[from] # "" /\ Color(board[from]) = turn
       /\ \E to \in Generated(G, from) : ~is_legal_move_run(G, from, to).res

\* ------------------------------------------------------------------- C13
\* the king of color is attacked in the game h, live branches counted as
\* is_square_attacked(simple=False) counts them
KingAttacked(h, color) ==
  /\ KingPos(h.board, color) # NoSquare
  /\ is_square_attacked(h, KingPos(h.board, color), color, FALSE)

\* the game as it stands, read as a game still running (the generators
\* return nothing once game_over is set)
Standing == [G EXCEPT !.game_over = FALSE]

\* C13: a half-move that ends the game by checkmate leaves the king of the
\* side to move attacked on the final board and that side without a legal
\* move; one that ends it by stalemate leaves that king not attacked and
\* that side without a legal move
C13_OutcomeMatchesBoard ==
  [][(~game_over /\ game_over' /\ last'.op \in {"move", "promotion"}) =>
       /\ ~ScanLegal(Standing', turn', 0).found
       /\ draw_by_stalemate' <=> ~KingAttacked(Standing', turn')]_vars

\* ------------------------------------------------------------------- C14
\* C14: the terminal state is absorbing: once game_over is set it is never
\* cleared, and no later click (select, move, promotion choice, edit
\* button, edit click) changes the board, the turn, the capture lists, the
\* en-passant target, the castling flags, the index or anything else of
\* the game; only the space bar still toggles split_mode
C14_TerminalAbsorbing ==
  [][game_over => [G EXCEPT !.split_mode = FALSE]'
                    = [G EXCEPT !.split_mode = FALSE]]_vars

\* the game has ended and the user went on: the space bar was pressed after
\* the end and a piece stands on a square the user clicks
C14_PlayedOnAfterEnd ==
  /\ game_over
  /\ running
  /\ last.op = "space"
  /\ \E sq \in inputs.squares : board[sq] # ""

\* ------------------------------------------------------------------- C15
\* the squares on which a king of the side to move stands
KingSquares == {sq \in Squares : board[sq] = King(turn)}

\* C15: get_king_moves offers the king-side (queen-side) castling
\* destination only if, in the current position, that side's never-moved
\* flag is set, the squares between king and rook are empty, the king is
\* not in check and the transited squares are not attacked, whatever an
\* earlier call found
C15_CastlingRecomputed ==
  (~game_over /\ ~edit_mode) =>
    \A sq \in KingSquares :
      /\ (sq + 2) \in get_king_moves(G, sq).moves =>
           KingSideOk(G, sq) /\ ~InCheckSimple(G, turn)
      /\ (sq - 2) \in get_king_moves(G, sq).moves =>
           QueenSideOk(G, sq) /\ ~InCheckSimple(G, turn)

\* ------------------------------------------------------------------- C16
\* the rooks of color on the board b
Rooks(b, color) == {sq \in Squares : b[sq] = Piece(color, "r")}

\* the latest event is a king move of two columns: a castling move
Castled(e) ==
  /\ e.op = "move"
  /\ board[e.from] = King(turn)
  /\ ~split_mode
  /\ ~is_split_piece(G, e.from)
  /\ (e.to = e.from + 2 \/ e.to = e.from - 2)

\* the corner square of the side towards which the king on from moves
Corner(from, to) == Sq(Row(from), IF to > from THEN N - 1 ELSE 0)

\* C16: whenever a castling destination was offered and is played, a rook
\* of the king's colour stands on that side's corner square, and the move
\* leaves the number of rooks of that colour unchanged
C16_CastlingNeedsRook ==
  [][Castled(last') =>
       /\ board[Corner(last'.from, last'.to)] = Piece(turn, "r")
       /\ Cardinality(Rooks(board', turn)) = Cardinality(Rooks(board, turn))]_vars

\* the event is a pawn move of two rows along its column
DoubleStep(e) ==
  /\ e.op = "move"
  /\ board[e.from] = Piece(turn, "p")
  /\ Col(e.to) = Col(e.from)
  /\ (Row(e.to) = Row(e.from) + 2 \/ Row(e.to) = Row(e.from) - 2)

\* the square a pawn skips on its way from from to to
Skipped(from, to) == Sq((Row(from) + Row(to)) \div 2, Col(from))

\* C17: whenever a half-move passes the turn, the en-passant target of the
\* new side's turn is non-null only if that half-move was a pawn double-step,
\* and then it is the square the pawn skipped; every other way of passing
\* the turn leaves it null
C17_EnPassantOnePly ==
  [][(turn' # turn /\ last'.op \in {"move", "promotion"} /\ en_passant' # NoSquare) =>
       /\ DoubleStep(last')
       /\ en_passant' = Skipped(last'.from, last'.to)]_vars

\* the entries of a capture list
Entries(list) == {list[i] : i \in 1..Len(list)}

\* C18: every entry of captured[c] is a piece identifier of the colour
\* opposite to c; a capture list never holds an empty identifier or a piece
\* of the capturing side
C18_CapturedAreEnemyPieces ==
  \A c \in {"w", "b"} : \A id \in Entries(captured[c]) :
    id # "" /\ Color(id) = Other(c)

\* the event is a split move from a live branch that the collapse found
\* real: the move registered a qubit with branch a on from and b on to
SplitFromLive(e) ==
  /\ e.op = "move" /\ split_mode /\ is_split_piece(G, e.from)
  /\ RealBranch(QubitAt(subsystems', RefAt(G, e.from))).pos = e.from
  /\ e.from \in DOMAIN global_position_map'
  /\ e.to \in DOMAIN global_position_map'
  /\ global_position_map'[e.from].branch = "a"
  /\ global_position_map'[e.to].branch = "b"
  /\ RefAt(G', e.to) = RefAt(G', e.from)

\* C19: a split move from a live branch found real registers the new qubit
\* in the subsystem that indexed the origin, as a child of the qubit and
\* branch that indexed it, and adds no subsystem
C19_SplitChainsToParent ==
  [][SplitFromLive(last') =>
       /\ Len(subsystems') = Len(subsystems)
       /\ global_position_map'[last'.from].sub = global_position_map[last'.from].sub
       /\ QubitAt(subsystems', RefAt(G', last'.from)).parent =
            global_position_map[last'.from].qubit
       /\ QubitAt(subsystems', RefAt(G', last'.from)).parent_branch =
            global_position_map[last'.from].branch]_vars

\* the event completes a half-move that created a split and passes the
\* turn: a split move that is no promotion, or the promotion choice for a
\* pawn that a split move brought to the back rank as branch b
SplitCompleted(e) ==
  /\ split_mode /\ turn' # turn
  /\ \/ /\ e.op = "move"
        /\ e.from \in DOMAIN global_position_map'
        /\ e.to \in DOMAIN global_position_map'
        /\ global_position_map'[e.to].branch = "b"
        /\ RefAt(G', e.to) = RefAt(G', e.from)
     \/ /\ e.op = "promotion" /\ promotion_pending
        /\ promotion_pos \in DOMAIN global_position_map
        /\ global_position_map[promotion_pos].branch = "b"

\* C20: whenever a half-move that created a split is completed and the turn
\* passes, through a promotion choice included, split_mode is false
C20_SplitModeSingleUse ==
  [][SplitCompleted(last') => ~split_mode']_vars

\* C21: a promotion choice for a pawn on a live branch square makes that
\* branch's recorded identity the chosen kind while the sibling branch keeps
\* the pawn; when the subsystem of such a qubit is collapsed and folded
\* (other than by a move from or onto one of its two squares), the promoted
\* square holds the chosen kind and the sibling is empty if the promoted
\* branch is real, else the sibling holds the pawn and the promoted square
\* is empty
C21_PromotedBranchFolds ==
  [][/\ (last'.op = "promotion" /\ promotion_pending /\ ~edit_mode
          /\ is_split_piece(G, promotion_pos)) =>
          LET q == QubitAt(subsystems', RefAt(G, promotion_pos))
              onA == global_position_map[promotion_pos].branch = "a"
              mine == IF onA THEN q.branch_a ELSE q.branch_b
              sibling == IF onA THEN q.branch_b ELSE q.branch_a
          IN /\ Color(mine.piece_type) = turn
             /\ Kind(mine.piece_type) \in promotion_options
             /\ sibling.piece_type = Piece(turn, "p")
             /\ promotion_pos \in DOMAIN global_position_map' =>
                  /\ board'[promotion_pos] = mine.piece_type
                  /\ board'[sibling.pos] = sibling.piece_type
     /\ \A s \in 1 .. Len(subsystems) :
          \A i \in 1 .. Len(subsystems[s].split_qubits) :
            LET q == subsystems'[s].split_qubits[i]
                fake == IF q.collapsed_result = "a" THEN q.branch_b ELSE q.branch_a
            IN (/\ ~subsystems[s].measured /\ subsystems'[s].measured
                /\ Kind(q.branch_a.piece_type) # Kind(q.branch_b.piece_type)
                /\ q.branch_a.pos \notin DOMAIN global_position_map'
                /\ q.branch_b.pos \notin DOMAIN global_position_map'
                /\ ~(last'.op = "move"
                     /\ {last'.from, last'.to} \cap {q.branch_a.pos, q.branch_b.pos} # {}))
               => /\ board'[RealBranch(q).pos] = RealBranch(q).piece_type
                  /\ board'[fake.pos] = ""]_vars

\* a later half-move elsewhere on the board has collapsed and folded the
\* subsystem of a promoted live branch, and the promoted branch was real
C21_PromotedFoldedLater ==
  /\ last.op = "move"
  /\ \E s \in 1 .. Len(subsystems) :
       LET q == subsystems[s].split_qubits[1]
       IN /\ subsystems[s].measured
          /\ Kind(q.branch_a.piece_type) = "p"
          /\ Kind(q.branch_b.piece_type) \in {"b", "n"}
          /\ q.collapsed_result = "b"
          /\ board[q.branch_b.pos] = q.branch_b.piece_type
          /\ board[q.branch_a.pos] = ""
          /\ {last.from, last.to} \cap {q.branch_a.pos, q.branch_b.pos} = {}

\* C22: the turn changes only in a move or a promotion choice, and then it
\* passes to the other side once, the check cache of the side that moved is
\* invalid and the game is over iff the new side has no legal move; a click
\* that reaches make_move passes the turn unless it suspends in a promotion,
\* ends the program or finds an own piece on the destination, and a
\* promotion choice passes the turn
C22_TurnAlternates ==
  [][/\ turn' # turn =>
          /\ last'.op \in {"move", "promotion"}
          /\ turn' = Other(turn)
          /\ check_cache'[turn] = "None"
          /\ game_over' <=> ~ScanLegal(Standing', turn', 0).found
     /\ ply' = ply + 1 =>
          \/ turn' = Other(turn) /\ ~promotion_pending'
          \/ turn' = turn /\ promotion_pending'
          \/ turn' = turn /\ ~running'
          \/ turn' = turn /\ board' = board /\ board[last'.to] # ""
               /\ Color(board[last'.to]) = turn
     /\ (promotion_pending /\ ~promotion_pending') => turn' = Other(turn)]_vars

\* white is to move again after both sides have played a half-move
C22_TurnCameBack ==
  /\ turn = "w" /\ ply >= 2 /\ last.op = "move" /\ ~game_over /\ running
  /\ ~promotion_pending

ClassicalSplit(e) ==
  /\ e.op = "move" /\ ply' = ply + 1 /\ split_mode /\ running'
  /\ ~is_split_piece(G, e.from) /\ ~is_split_piece(G, e.to)
  /\ board[e.to] = ""

\* the split of e opened one subsystem whose only qubit is a root with
\* branch a on the origin and branch b on the destination
OpenedSubsystem(e) ==
  /\ Len(subsystems') = Len(subsystems) + 1
  /\ \A s \in 1 .. Len(subsystems) :
       Len(subsystems'[s].split_qubits) = Len(subsystems[s].split_qubits)
  /\ LET ss == subsystems'[Len(subsystems')]
     IN /\ Len(ss.split_qubits) = 1
        /\ ss.split_qubits[1].parent = 0
        /\ ss.split_qubits[1].parent_branch = "None"
        /\ ss.split_qubits[1].branch_a.pos = e.from
        /\ ss.split_qubits[1].branch_b.pos = e.to

\* the index gained the two entries of the split of e and nothing else
\* changed in it; the piece is shown on both squares
IndexedBoth(e) ==
  /\ global_position_map' =
       (e.from :> [sub |-> Len(subsystems'), qubit |-> 1, branch |-> "a"])
         @@ (e.to :> [sub |-> Len(subsystems'), qubit |-> 1, branch |-> "b"])
         @@ global_position_map
  /\ board'[e.from] = board[e.from]
  /\ board'[e.to] = board[e.from]

C25_DoubleStepUnlessCheck ==
  [][(DoubleStep(last') /\ ply' = ply + 1 /\ ~split_mode
        /\ ~is_split_piece(G, last'.from)) =>
       /\ board'[last'.to] = board[last'.from]
       /\ board'[last'.from] = ""
       /\ en_passant' = Skipped(last'.from, last'.to)
       /\ turn' = Other(turn)
       /\ captured' = captured
       /\ \A sq \in Squares \ {last'.from, last'.to} :
            board'[sq] # board[sq] =>
              /\ check_cache'[turn'] = "True"
              /\ is_split_piece(G, sq)]_vars

\* C26: while a promotion is pending with edit mode off, a step that leaves
\* it pending changes neither board, turn nor selection and makes no move;
\* the step that ends it is a promotion choice that passes the turn once
\* and puts the chosen kind of the mover's colour on the promotion square,
\* changing no other square, except that a square that was a live branch
\* may change when the new side is found in check and the forced collapse
\* folds it
C26_PromotionSuspendsUnlessCheck ==
  [][(promotion_pending /\ ~edit_mode) =>
       IF promotion_pending'
       THEN /\ board' = board /\ turn' = turn /\ ply' = ply
            /\ selected' = selected /\ valid_moves' = valid_moves
       ELSE /\ last'.op = "promotion"
            /\ turn' = Other(turn)
            /\ \E k \in promotion_options :
                 \A sq \in Squares :
                   board'[sq] # [board EXCEPT ![promotion_pos] = Piece(turn, k)][sq] =>
                     /\ check_cache'[turn'] = "True"
                     /\ is_split_piece(G, sq)]_vars

\* C27: in play with no promotion pending, a click with a piece selected
\* on a square outside its legal-move set clears the selection and changes
\* nothing else (board, turn, capture lists, en-passant target, index and
\* subsystems included), and a click with nothing selected on an empty
\* square or on a piece of the other side changes nothing
C27_RejectedWithoutMutation ==
  (~game_over /\ ~edit_mode /\ ~promotion_pending) =>
    \A sq \in Squares :
      /\ (selected # NoSquare /\ sq \notin valid_moves) =>
           \A orc \in Oracles(G) :
             ClickSquare(G, sq, orc) =
               [G EXCEPT !.selected = NoSquare, !.valid_moves = {}]
      /\ (selected = NoSquare /\ (board[sq] = "" \/ Color(board[sq]) # turn)) =>
           \A orc \in Oracles(G) : ClickSquare(G, sq, orc) = G

\* a click has just been rejected during play while a split is live: the
\* selection is gone and no move was made by it
C27_ClickRejected ==
  /\ ~game_over /\ ~edit_mode /\ ~promotion_pending
  /\ last.op = "click" /\ selected = NoSquare /\ ply >= 1
  /\ global_position_map # <<>>

\* C28: a create_split_qubit call whose destination is indexed by a
\* different qubit of an unmeasured subsystem ends the program and leaves
\* the index as it was
C28_IndexedDestinationAborts ==
  [][(/\ last'.op = "create_split_qubit" /\ ply' = ply + 1
      /\ is_split_piece(G, last'.to)
      /\ ~subsystems[global_position_map[last'.to].sub].measured) =>
       /\ ~running'
       /\ global_position_map' = global_position_map]_vars

\* C29: when a step in which a non-simple is_in_check(color) answered true
\* has collapsed the last unmeasured subsystems and the game goes on, the
\* next non-simple is_in_check(color) answers whether that colour's king is
\* attacked on the board the collapse left
C29_CheckRecomputedAfterCollapse ==
  [][\A color \in {"w", "b"} :
       (/\ \E s \in 1 .. Len(subsystems') :
             s > Len(subsystems) \/ ~subsystems[s].measured
        /\ \A s \in 1 .. Len(subsystems') : subsystems'[s].measured
        /\ check_cache'[color] = "True"
        /\ check_cache[color] # "True"
        /\ ~game_over' /\ ~edit_mode') =>
         is_in_check(G', color, <<>>).res = KingAttacked(G', color)]_vars

\* C30: a non-simple is_in_check that misses the cache collapses all or
\* nothing: answering true it leaves every subsystem measured and the index
\* empty; answering false it leaves every subsystem, every index entry and
\* every board square as they were
C30_CollapsesAllOrNothing ==
  \A color \in {"w", "b"} :
    check_cache[color] = "None" =>
      \A orc \in Oracles(G) :
        LET r == is_in_check(G, color, orc)
        IN IF r.res
           THEN /\ \A s \in 1 .. Len(r.g.subsystems) : r.g.subsystems[s].measured
                /\ DOMAIN r.g.global_position_map = {}
           ELSE /\ r.g.subsystems = subsystems
                /\ r.g.global_position_map = global_position_map
                /\ r.g.board = board

\* a colour whose check is not cached stands in check while a subsystem is
\* still unmeasured: the next is_in_check collapses it
C30_CheckWouldCollapse ==
  \E color \in {"w", "b"} :
    /\ check_cache[color] = "None"
    /\ \E s \in 1 .. Len(subsystems) : ~subsystems[s].measured
    /\ \E orc \in Oracles(G) : is_in_check(G, color, orc).res

\* C31: a castling destination is offered (the marks 'king' and 'queen' an
\* earlier call left being cleared first) only if no enemy piece attacks
\* the square the king crosses or the square it lands on, a pawn attacking
\* the two squares diagonally ahead of it (empty or not) and never the
\* square straight ahead
C31_NoCastlingThroughAttack ==
  (~game_over /\ ~edit_mode /\ ~promotion_pending) =>
    \A sq \in {k \in KingSquares : Col(k) = 4} :
      \A to \in {sq + 2, sq - 2} \cap
                get_valid_moves([G EXCEPT !.castling[turn].king = FALSE,
                                          !.castling[turn].queen = FALSE],
                                sq).moves :
        LET enemy == Other(turn)
            ahead == IF enemy = "w" THEN -1 ELSE 1
            Attacks(p, t) ==
              IF Kind(board[p]) = "p"
              THEN /\ Row(t) = Row(p) + ahead
                   /\ Col(t) \in {Col(p) - 1, Col(p) + 1}
              ELSE t \in SimpleMoves(G, board, enemy, p)
        IN \A t \in {(sq + to) \div 2, to} :
             \A p \in {x \in Squares : board[x] \in PIECES} :
               Color(board[p]) = enemy => ~Attacks(p, t)

\* C32: for an en passant capture (a pawn of the side to move stepping
\* diagonally onto the empty en passant square beside an enemy pawn),
\* is_legal_move accepts the move if and only if the mover's king is not
\* attacked on the board the capture produces, the captured pawn removed
C32_EnPassantJudgedAsPlayed ==
  (~game_over /\ ~edit_mode /\ ~promotion_pending /\ en_passant # NoSquare) =>
    \A from \in {s \in Squares : board[s] = Piece(turn, "p")} :
      LET to == en_passant
          taken == Sq(Row(from), Col(to))
          played == [board EXCEPT ![to] = board[from], ![from] = "",
                                  ![taken] = ""]
      IN (/\ to \in get_pawn_moves(board, en_passant, turn, from)
          /\ Col(to) # Col(from)
          /\ board[to] = ""
          /\ board[taken] = Piece(Other(turn), "p")
          /\ ~is_split_piece(G, from) /\ ~is_split_piece(G, taken)) =>
           (is_legal_move(G, from, to)
              <=> ~InCheckSimple([G EXCEPT !.board = played], turn))

====
